---- MODULE Spec2Model ----
(***************************************************************************)
(* webhook-slash: the verify-then-dispatch pipeline of                      *)
(* src/webhook-slash/src/main.rs (interaction_handler, handler, debug,      *)
(* vroom), one pipeline per connection.                                     *)
(*                                                                          *)
(* Byte strings are sequences of integers 0..255 (ASCII where the source    *)
(* writes text).  PUB_KEY stands for the key a deployment substitutes for   *)
(* the "PUBLIC_KEY" placeholder of line 19.                                 *)
(***************************************************************************)
EXTENDS Integers, Sequences, FiniteSets, TLC

VARIABLES pipe, keyInit, pubKey, strictSig, remembered

vars == <<pipe, keyInit, pubKey, strictSig, remembered>>

(***************************************************************************)
(* Bounds                                                                   *)
(***************************************************************************)
\* longest x-signature-timestamp value the transport delivers
MaxTsLen == 1

(***************************************************************************)
(* Byte-string helpers                                                      *)
(***************************************************************************)
Drop(s, n) == SubSeq(s, n + 1, Len(s))

Take(s, n) == SubSeq(s, 1, n)

StartsWith(s, p) == Len(s) >= Len(p) /\ Take(s, Len(p)) = p

\* first position of byte b in s, 0 when absent
IndexOf(s, b) ==
    IF \E i \in 1..Len(s) : s[i] = b
    THEN CHOOSE i \in 1..Len(s) : s[i] = b /\ \A j \in 1..(i - 1) : s[j] # b
    ELSE 0

\* all byte strings over alphabet A of length 1..n
RECURSIVE SeqsUpTo(_, _)
SeqsUpTo(A, n) ==
    IF n = 0 THEN {}
    ELSE {<<a>> : a \in A}
         \cup SeqsUpTo(A, n - 1)
         \cup {Append(s, a) : s \in SeqsUpTo(A, n - 1), a \in A}

(***************************************************************************)
(* Text the source and the wire format write, as ASCII                      *)
(***************************************************************************)
POST == <<80, 79, 83, 84>>

GET == <<71, 69, 84>>

\* "/"
RootPath == <<47>>

\* "/x"
OtherPath == <<47, 120>>

\* "vroom"
NameVroom == <<118, 114, 111, 111, 109>>

\* "debug"
NameDebug == <<100, 101, 98, 117, 103>>

\* "Vroom"
NameVroomCap == <<86, 114, 111, 111, 109>>

\* "xyz"
NameUnknown == <<120, 121, 122>>

\* "Vroom vroom"
VroomText == <<86, 114, 111, 111, 109, 32, 118, 114, 111, 111, 109>>

\* "```rust\n" and "\n```"
DebugOpen == <<96, 96, 96, 114, 117, 115, 116, 10>>

DebugClose == <<10, 96, 96, 96>>

\* {"type":
LitType == <<123, 34, 116, 121, 112, 101, 34, 58>>

\* ,"data":{
LitData == <<44, 34, 100, 97, 116, 97, 34, 58, 123>>

\* "id":"
LitId == <<34, 105, 100, 34, 58, 34>>

\* ",
LitSep == <<34, 44>>

\* "name":"
LitName == <<34, 110, 97, 109, 101, 34, 58, 34>>

\* "}}
LitEnd == <<34, 125, 125>>

\* "content":"
LitContent == <<34, 99, 111, 110, 116, 101, 110, 116, 34, 58, 34>>

Digits == 48..57

(***************************************************************************)
(* hex::FromHex for [u8; 64] (line 50)                                      *)
(***************************************************************************)
\* ed25519 SIGNATURE_LENGTH: the array Signature::new takes
SIGNATURE_LENGTH == 64

PUBLIC_KEY_LENGTH == 32

\* value of one hex character, -1 when it is none
HexVal(c) ==
    IF c \in 48..57 THEN c - 48
    ELSE IF c \in 97..102 THEN c - 87
    ELSE IF c \in 65..70 THEN c - 55
    ELSE -1

HexDigit(n) == IF n < 10 THEN 48 + n ELSE 87 + n

HexEncode(bytes) ==
    [i \in 1..(2 * Len(bytes)) |->
        IF i % 2 = 1 THEN HexDigit(bytes[(i + 1) \div 2] \div 16)
        ELSE HexDigit(bytes[i \div 2] % 16)]

\* decode_to_slice: odd length, then length against the array, then the characters
FromHex(data) ==
    IF Len(data) % 2 # 0
    THEN [ok |-> FALSE, err |-> "OddLength", bytes |-> <<>>]
    ELSE IF Len(data) \div 2 # SIGNATURE_LENGTH
    THEN [ok |-> FALSE, err |-> "InvalidStringLength", bytes |-> <<>>]
    ELSE IF \E i \in 1..Len(data) : HexVal(data[i]) = -1
    THEN [ok |-> FALSE, err |-> "InvalidHexCharacter", bytes |-> <<>>]
    ELSE [ok |-> TRUE, err |-> "",
          bytes |-> [i \in 1..SIGNATURE_LENGTH |->
                        HexVal(data[2 * i - 1]) * 16 + HexVal(data[2 * i])]]

(***************************************************************************)
(* PUB_KEY and ed25519 verification (lines 18-21, 59-64).  The signature    *)
(* scheme is idealised: for each key and message exactly one 64-byte        *)
(* signature verifies, the one the platform's private key produces.         *)
(***************************************************************************)
PUB_KEY == [i \in 1..PUBLIC_KEY_LENGTH |-> (37 * i + 11) % 256]

RECURSIVE DigestTo(_, _)
DigestTo(msg, n) ==
    IF n = 0 THEN 7 ELSE (DigestTo(msg, n - 1) * 31 + msg[n]) % 65521

Digest(msg) == DigestTo(msg, Len(msg))

\* the signature the holder of the private key of `key` produces for msg;
\* the three highest bits of the last byte are clear (s is a reduced scalar)
SignatureFor(key, msg) ==
    LET d == Digest(msg) IN
    [i \in 1..SIGNATURE_LENGTH |->
        LET b == (d * (i + 1) + key[((i - 1) % PUBLIC_KEY_LENGTH) + 1] * i) % 256
        IN IF i = SIGNATURE_LENGTH THEN b % 32 ELSE b]

\* the partial reduction check on s: the three highest bits of the last byte
ScalarInRange(sig) == sig[SIGNATURE_LENGTH] < 32

\* a bug: the body is put before the timestamp
SignedMessageBodyFirst(timestamp, whole_body) == whole_body \o timestamp

\* vec![timestamp.as_bytes(), &whole_body].concat()
SignedMessage(timestamp, whole_body) == timestamp \o whole_body

\* PublicKey::verify(msg, &signature).is_ok()
Verify(key, msg, sig) == ScalarInRange(sig) /\ sig = SignatureFor(key, msg)

(***************************************************************************)
(* String::from_utf8 (line 70)                                              *)
(***************************************************************************)
IsCont(b) == b \in 128..191

RECURSIVE IsUtf8(_)
IsUtf8(s) ==
    IF s = <<>> THEN TRUE
    ELSE LET b == s[1] IN
        IF b < 128 THEN IsUtf8(Drop(s, 1))
        ELSE IF b \in 194..223
        THEN Len(s) >= 2 /\ IsCont(s[2]) /\ IsUtf8(Drop(s, 2))
        ELSE IF b \in 224..239
        THEN /\ Len(s) >= 3
             /\ s[2] \in (IF b = 224 THEN 160..191 ELSE IF b = 237 THEN 128..159 ELSE 128..191)
             /\ IsCont(s[3])
             /\ IsUtf8(Drop(s, 3))
        ELSE IF b \in 240..244
        THEN /\ Len(s) >= 4
             /\ s[2] \in (IF b = 240 THEN 144..191 ELSE IF b = 244 THEN 128..143 ELSE 128..191)
             /\ IsCont(s[3])
             /\ IsCont(s[4])
             /\ IsUtf8(Drop(s, 4))
        ELSE FALSE

(***************************************************************************)
(* serde_json::from_slice::<Interaction> (line 72), for compact JSON of the *)
(* shapes  {"type":D}  and  {"type":D,"data":{["id":"..",]"name":".."}}     *)
(***************************************************************************)
Malformed == [ok |-> FALSE, type |-> 0, hasData |-> FALSE, id |-> <<>>, name |-> <<>>]

\* r: what follows  ,"data":{
ParseData(ty, r) ==
    LET hasId == StartsWith(r, LitId)
        afterId == IF hasId THEN Drop(r, Len(LitId)) ELSE r
        idEnd == IF hasId THEN IndexOf(afterId, 34) ELSE 0
        idOk == hasId /\ idEnd > 0 /\ StartsWith(Drop(afterId, idEnd - 1), LitSep)
        r2 == IF ~hasId THEN r ELSE IF idOk THEN Drop(afterId, idEnd + 1) ELSE <<>>
    IN  IF ~StartsWith(r2, LitName) THEN Malformed
        ELSE LET r3 == Drop(r2, Len(LitName))
                 nEnd == IndexOf(r3, 34)
             IN IF nEnd = 0 \/ Drop(r3, nEnd - 1) # LitEnd THEN Malformed
                ELSE [ok |-> TRUE, type |-> ty, hasData |-> TRUE,
                      id |-> IF idOk THEN Take(afterId, idEnd - 1) ELSE <<>>,
                      name |-> Take(r3, nEnd - 1)]

ParseJson(b) ==
    IF ~IsUtf8(b) \/ ~StartsWith(b, LitType) THEN Malformed
    ELSE LET r1 == Drop(b, Len(LitType)) IN
        IF Len(r1) < 2 \/ r1[1] \notin Digits THEN Malformed
        ELSE LET ty == r1[1] - 48
                 r2 == Drop(r1, 1)
             IN IF r2 = <<125>>
                THEN [ok |-> TRUE, type |-> ty, hasData |-> FALSE, id |-> <<>>, name |-> <<>>]
                ELSE IF StartsWith(r2, LitData) THEN ParseData(ty, Drop(r2, Len(LitData)))
                ELSE Malformed

NoInteraction == [kind |-> "none", id |-> <<>>, name |-> <<>>]

\* Interaction is a non-exhaustive enum: Ping (type 1), ApplicationCommand
\* (type 2, needs data.name), and the kinds the  _  arm of line 93 stands for
\* (type 3, MessageComponent)
DecodeInteraction(whole_body) ==
    LET j == ParseJson(whole_body) IN
    IF ~j.ok THEN [ok |-> FALSE, value |-> NoInteraction]
    ELSE IF j.type = 1
    THEN [ok |-> TRUE, value |-> [kind |-> "Ping", id |-> <<>>, name |-> <<>>]]
    ELSE IF j.type = 2 /\ j.hasData
    THEN [ok |-> TRUE,
          value |-> [kind |-> "ApplicationCommand", id |-> j.id, name |-> j.name]]
    ELSE IF j.type = 3
    THEN [ok |-> TRUE, value |-> [kind |-> "MessageComponent", id |-> <<>>, name |-> <<>>]]
    ELSE [ok |-> FALSE, value |-> NoInteraction]

(***************************************************************************)
(* InteractionResponse, the command handlers (lines 99-132) and             *)
(* serde_json::to_vec (lines 78, 87)                                        *)
(***************************************************************************)
Pong == [type |-> "Pong", content |-> <<>>]

ChannelMessageWithSource(content) ==
    [type |-> "ChannelMessageWithSource", content |-> content]

\* {:?} of an Interaction: its kind and fields, written injectively
DebugFmt(i) ==
    (IF i.kind = "Ping" THEN <<80>>
     ELSE IF i.kind = "ApplicationCommand" THEN <<65>>
     ELSE <<77>>) \o <<40>> \o i.id \o <<44>> \o i.name \o <<41>>

debug(i) ==
    [ok |-> TRUE, err |-> "",
     resp |-> ChannelMessageWithSource(DebugOpen \o DebugFmt(i) \o DebugClose)]

vroom(i) == [ok |-> TRUE, err |-> "", resp |-> ChannelMessageWithSource(VroomText)]

\* a bug: the fallback arm fails instead of answering
handlerStrict(i) ==
    IF i.kind = "ApplicationCommand"
    THEN IF i.name = NameVroom THEN vroom(i)
         ELSE IF i.name = NameDebug THEN debug(i)
         ELSE [ok |-> FALSE, err |-> "unknown command", resp |-> Pong]
    ELSE [ok |-> FALSE, err |-> "invalid interaction data", resp |-> Pong]

\* a bug: the "vroom" arm is missing, so every command is echoed
handlerNoVroom(i) ==
    IF i.kind = "ApplicationCommand" THEN debug(i)
    ELSE [ok |-> FALSE, err |-> "invalid interaction data", resp |-> Pong]

handler(i) ==
    IF i.kind = "ApplicationCommand"
    THEN IF i.name = NameVroom THEN vroom(i)
         ELSE IF i.name = NameDebug THEN debug(i)
         ELSE debug(i)
    ELSE [ok |-> FALSE, err |-> "invalid interaction data", resp |-> Pong]

\* the f of interaction_handler: main passes handler; the bound on F (lines
\* 25-28) also admits an f whose future resolves to Err or never resolves
FKinds == {"handler", "failing"}

CallF(f, i) ==
    IF f = "handler" THEN handler(i)
    ELSE [ok |-> FALSE, err |-> "handler error", resp |-> Pong]

RECURSIVE JsonEscape(_)
JsonEscape(s) ==
    IF s = <<>> THEN <<>>
    ELSE (IF s[1] = 10 THEN <<92, 110>>
          ELSE IF s[1] = 34 THEN <<92, 34>>
          ELSE IF s[1] = 92 THEN <<92, 92>>
          ELSE <<s[1]>>) \o JsonEscape(Drop(s, 1))

\* serde_json::to_vec(&response): {"type":1}  or
\* {"type":4,"data":{"content":"<text>"}}
ToVec(resp) ==
    IF resp.type = "Pong" THEN LitType \o <<49, 125>>
    ELSE LitType \o <<52>> \o LitData \o LitContent \o JsonEscape(resp.content) \o LitEnd

(***************************************************************************)
(* Outcomes of one call of interaction_handler                              *)
(***************************************************************************)
OK == 200

BAD_REQUEST == 400

FORBIDDEN == 403

NOT_FOUND == 404

METHOD_NOT_ALLOWED == 405

NoOutcome == [kind |-> "none", status |-> 0, body |-> <<>>, err |-> ""]

\* Ok(Response::builder().status(status).body(body)?)
Respond(status, body) == [kind |-> "response", status |-> status, body |-> body, err |-> ""]

\* the  ?  operator: Err(e) returned to hyper, which writes no response
Fail(e) == [kind |-> "error", status |-> 0, body |-> <<>>, err |-> e]

\* unwrap()/expect() on an Err: the task unwinds, no response is written
Panicked(e) == [kind |-> "panic", status |-> 0, body |-> <<>>, err |-> e]

(***************************************************************************)
(* The requests the transport delivers                                      *)
(***************************************************************************)
NoHeader == [present |-> FALSE, value |-> <<>>]

Header(v) == [present |-> TRUE, value |-> v]

\* ASCII digits "1" and "6"
Timestamps == SeqsUpTo({49, 54}, MaxTsLen)

CommandBody(name) == LitType \o <<50>> \o LitData \o LitName \o name \o LitEnd

CommandBodyWithId(id, name) ==
    LitType \o <<50>> \o LitData \o LitId \o id \o LitSep \o LitName \o name \o LitEnd

Bodies ==
    { LitType \o <<49, 125>>,                \* {"type":1}
      CommandBody(NameVroom),
      CommandBodyWithId(<<55>>, NameVroom),
      CommandBody(NameDebug),
      CommandBody(NameVroomCap),
      CommandBody(<<>>),
      CommandBodyWithId(<<55>>, NameUnknown),
      CommandBody(<<195, 169>>),             \* a two-byte UTF-8 name
      LitType \o <<51, 125>>,                \* {"type":3}
      LitType \o <<57, 125>>,                \* {"type":9}: no such interaction
      LitType \o <<50, 125>>,                \* {"type":2}: data is missing
      LitType,                               \* truncated JSON
      LitType \o <<49, 125, 255>>,           \* not UTF-8
      <<>> }

\* the key of somebody who is not the platform
ForgerKey == [i \in 1..PUBLIC_KEY_LENGTH |-> (91 * i + 5) % 256]

FlipBit(b) == IF b % 2 = 0 THEN b + 1 ELSE b - 1

UpperHex(h) == [i \in 1..Len(h) |-> IF h[i] \in 97..102 THEN h[i] - 32 ELSE h[i]]

\* the x-signature-ed25519 values tried with a timestamp and a body
SigHeaders(timestamp, body) ==
    LET good == SignatureFor(PUB_KEY, timestamp \o body)
        hex == HexEncode(good)
    IN  { NoHeader,
          Header(hex),
          Header(UpperHex(hex)),
          Header(HexEncode(SignatureFor(PUB_KEY, body \o timestamp))),
          Header(HexEncode(SignatureFor(ForgerKey, timestamp \o body))),
          Header(HexEncode([good EXCEPT ![1] = FlipBit(@)])),
          Header(HexEncode([good EXCEPT ![SIGNATURE_LENGTH] = @ + 128])),
          Header([hex EXCEPT ![1] = 103]),
          Header(Take(hex, Len(hex) - 1)),
          Header(Take(hex, SIGNATURE_LENGTH)) }

Requests ==
    UNION { UNION { { [method |-> m, path |-> p, ts |-> t, sig |-> s, body |-> b]
                      : m \in {POST, GET}, p \in {RootPath, OtherPath},
                        s \in SigHeaders(t.value, b) }
                    : b \in Bodies }
            : t \in {NoHeader} \cup {Header(v) : v \in Timestamps} }

NoRequest == [method |-> <<>>, path |-> <<>>, ts |-> NoHeader, sig |-> NoHeader, body |-> <<>>]

(***************************************************************************)
(* State: one pipeline per connection, the Lazy PUB_KEY (keyInit: it has    *)
(* been forced; pubKey: the value it holds), and whether the build's        *)
(* Signature::new checks the scalar (ed25519 >= 1.3 does, and panics;       *)
(* earlier versions wrap the bytes).  remembered is a history variable: an  *)
(* earlier call of interaction_handler and what it returned.                *)
(***************************************************************************)
Conns == {1}

Idle ==
    [pc |-> "idle", req |-> NoRequest, f |-> "none", signature |-> <<>>,
     whole_body |-> <<>>, bodyRead |-> FALSE, verifyCalls |-> 0, verified |-> "none",
     printed |-> FALSE, interaction |-> NoInteraction, fCalls |-> 0, out |-> NoOutcome]

NoCall == [req |-> NoRequest, f |-> "none", out |-> NoOutcome]

Init ==
    /\ pipe = [c \in Conns |-> Idle]
    /\ keyInit = FALSE
    /\ pubKey = <<>>
    /\ strictSig \in BOOLEAN
    /\ remembered = NoCall

(***************************************************************************)
(* interaction_handler, lines 30-55: the validator                          *)
(***************************************************************************)
\* a bug: the path is checked before the method
ValidatorStatusPathFirst(req) ==
    IF req.path # RootPath THEN NOT_FOUND
    ELSE IF req.method # POST THEN METHOD_NOT_ALLOWED
    ELSE IF ~req.ts.present THEN BAD_REQUEST
    ELSE IF ~req.sig.present THEN BAD_REQUEST
    ELSE 0

\* a bug: the method check is missing
ValidatorStatusNoMethod(req) ==
    IF req.path # RootPath THEN NOT_FOUND
    ELSE IF ~req.ts.present THEN BAD_REQUEST
    ELSE IF ~req.sig.present THEN BAD_REQUEST
    ELSE 0

\* the status of the early return, 0 when none is taken
ValidatorStatus(req) ==
    IF req.method # POST THEN METHOD_NOT_ALLOWED
    ELSE IF req.path # RootPath THEN NOT_FOUND
    ELSE IF ~req.ts.present THEN BAD_REQUEST
    ELSE IF ~req.sig.present THEN BAD_REQUEST
    ELSE 0

\* lines 49-57: Signature::new(FromHex::from_hex(hex_sig)?), h the result of from_hex
NewSignature(p0, h) ==
    IF ~h.ok
    THEN [p0 EXCEPT !.pc = "done", !.out = Fail(h.err)]
    ELSE IF strictSig /\ ~ScalarInRange(h.bytes)
    THEN [p0 EXCEPT !.pc = "done", !.out = Panicked("invalid signature")]
    ELSE [p0 EXCEPT !.pc = "reading", !.signature = h.bytes]

\* lines 30-57, up to the await of the body
Call(c, r, f) ==
    /\ pipe[c].pc = "idle"
    /\ LET p0 == [Idle EXCEPT !.req = r, !.f = f]
           st == ValidatorStatus(r)
       IN  pipe' = [pipe EXCEPT ![c] =
               IF st # 0
               THEN [p0 EXCEPT !.pc = "done", !.out = Respond(st, <<>>)]
               ELSE NewSignature(p0, FromHex(r.sig.value))]
    /\ UNCHANGED <<keyInit, pubKey, strictSig, remembered>>

(***************************************************************************)
(* interaction_handler, lines 57-96: body, verification, decoding, match    *)
(***************************************************************************)
\* a bug: the result of verify is ignored
RejectForgedNever(p) == FALSE

\* a bug: the static is not read-only, an access after the first stores another key
LazyKeyRewritten ==
    IF keyInit THEN [i \in 1..PUBLIC_KEY_LENGTH |-> (pubKey[i] + 1) % 256] ELSE PUB_KEY

\* Lazy::force: the first access runs the closure of lines 18-21, a later
\* one returns the value stored then
LazyKey == IF keyInit THEN pubKey ELSE PUB_KEY

\* a bug: replay protection, a request seen before is refused
RejectReplayed(p) ==
    \/ ~Verify(LazyKey, SignedMessage(p.req.ts.value, p.whole_body), p.signature)
    \/ remembered.req = p.req

\* lines 59-65: PUB_KEY.verify(timestamp ++ whole_body, &signature).is_err()
RejectForged(p) ==
    ~Verify(LazyKey, SignedMessage(p.req.ts.value, p.whole_body), p.signature)

\* a bug: the Ping arm is missing and a ping goes to the command handler
RoutePingToF(i) == IF i.kind = "Ping" \/ i.kind = "ApplicationCommand" THEN "f" ELSE "reject"

\* a bug: the  _  arm hands the interaction to the command handler
RouteOtherToF(i) == IF i.kind = "Ping" THEN "pong" ELSE "f"

\* the arms of the match of lines 74-96: "pong", "f" or "reject"
Route(i) ==
    IF i.kind = "Ping" THEN "pong"
    ELSE IF i.kind = "ApplicationCommand" THEN "f"
    ELSE "reject"

\* lines 72-96: d the result of from_slice, up to the await of f
Dispatch(p, d) ==
    LET p3 == [p EXCEPT !.interaction = d.value] IN
    IF ~d.ok
    THEN [p EXCEPT !.pc = "done", !.out = Fail("serde_json::Error")]
    ELSE IF Route(d.value) = "pong"
    THEN [p3 EXCEPT !.pc = "done", !.out = Respond(OK, ToVec(Pong))]
    ELSE IF Route(d.value) = "f"
    THEN [p3 EXCEPT !.pc = "handling", !.fCalls = @ + 1]
    ELSE [p3 EXCEPT !.pc = "done", !.out = Respond(BAD_REQUEST, <<>>)]

\* a bug: the rejection carries the body it refuses
ForbiddenEchoesBody(p) == Respond(FORBIDDEN, p.whole_body)

\* lines 66-68: the response to a signature that does not verify
Forbidden(p) == Respond(FORBIDDEN, <<>>)

\* a bug: the body is decoded and routed whatever verify returned
AuthenticateAfterDispatch(p, forged) ==
    LET p1 == [p EXCEPT !.verifyCalls = @ + 1,
                        !.verified = IF forged THEN "err" ELSE "ok"]
    IN  IF ~IsUtf8(p.whole_body)
        THEN [p1 EXCEPT !.pc = "done", !.out = Panicked("FromUtf8Error")]
        ELSE Dispatch([p1 EXCEPT !.printed = TRUE], DecodeInteraction(p.whole_body))

\* lines 59-72: forged is the result of verify(...).is_err()
Authenticate(p, forged) ==
    LET p1 == [p EXCEPT !.verifyCalls = @ + 1,
                        !.verified = IF forged THEN "err" ELSE "ok"]
    IN  IF forged
        THEN [p1 EXCEPT !.pc = "done", !.out = Forbidden(p)]
        ELSE IF ~IsUtf8(p.whole_body)
        THEN [p1 EXCEPT !.pc = "done", !.out = Panicked("FromUtf8Error")]
        ELSE Dispatch([p1 EXCEPT !.printed = TRUE], DecodeInteraction(p.whole_body))

\* lines 59-96 for a pipeline p whose body has been read
AfterBody(p) == Authenticate(p, RejectForged(p))

\* hyper::body::to_bytes(req).await returns Ok
BodyReady(c) ==
    /\ pipe[c].pc = "reading"
    /\ pipe' = [pipe EXCEPT ![c] =
           AfterBody([pipe[c] EXCEPT !.bodyRead = TRUE, !.whole_body = pipe[c].req.body])]
    /\ keyInit' = TRUE
    /\ pubKey' = LazyKey
    /\ UNCHANGED <<strictSig, remembered>>

\* a bug: what had arrived is verified and dispatched before the read error is seen
BodyErrorAfterDispatch(c) ==
    /\ pipe[c].pc = "reading"
    /\ pipe' = [pipe EXCEPT ![c] =
           [AfterBody([pipe[c] EXCEPT !.whole_body = pipe[c].req.body])
              EXCEPT !.pc = "done", !.out = Fail("hyper::Error")]]
    /\ UNCHANGED <<keyInit, pubKey, strictSig, remembered>>

\* hyper::body::to_bytes(req).await returns Err: the client went away
BodyError(c) ==
    /\ pipe[c].pc = "reading"
    /\ pipe' = [pipe EXCEPT ![c] = [@ EXCEPT !.pc = "done", !.out = Fail("hyper::Error")]]
    /\ UNCHANGED <<keyInit, pubKey, strictSig, remembered>>

\* lines 85-91: f(interaction).await resolves
HandlerReturns(c) ==
    /\ pipe[c].pc = "handling"
    /\ LET res == CallF(pipe[c].f, pipe[c].interaction) IN
       pipe' = [pipe EXCEPT ![c] =
           [@ EXCEPT !.pc = "done",
                     !.out = IF res.ok THEN Respond(OK, ToVec(res.resp)) ELSE Fail(res.err)]]
    /\ UNCHANGED <<keyInit, pubKey, strictSig, remembered>>

\* an await that never resolves: the client keeps the connection open and
\* sends no more of the body (line 57), or the future of an f other than
\* handler stays pending (line 85); the source arms no timer at either await
AwaitForever(c) ==
    /\ \/ pipe[c].pc = "reading"
       \/ pipe[c].pc = "handling" /\ pipe[c].f # "handler"
    /\ pipe' = [pipe EXCEPT ![c] = [@ EXCEPT !.pc = "pending"]]
    /\ UNCHANGED <<keyInit, pubKey, strictSig, remembered>>

\* the call is over; the connection takes its next request
Close(c) ==
    /\ pipe[c].pc = "done"
    /\ pipe' = [pipe EXCEPT ![c] = Idle]
    /\ UNCHANGED <<keyInit, pubKey, strictSig, remembered>>

Next ==
    \E c \in Conns :
        \/ \E r \in Requests, f \in FKinds : Call(c, r, f)
        \/ BodyReady(c)
        \/ BodyError(c)
        \/ HandlerReturns(c)
        \/ AwaitForever(c)
        \/ Close(c)

Spec == Init /\ [][Next]_vars

(***************************************************************************)
(* Replays: one connection delivers requests one after the other, and any  *)
(* finished call may be the one that is remembered and compared with the   *)
(* calls that follow it                                                     *)
(***************************************************************************)
\* POST / with timestamp "1": a ping, two commands, an interaction of
\* another kind and a body that is not JSON, each signed by the platform
\* or by somebody else
ReplayRequests ==
    { [method |-> POST, path |-> RootPath, ts |-> Header(<<49>>),
       sig |-> Header(HexEncode(SignatureFor(k, <<49>> \o b))), body |-> b]
      : k \in {PUB_KEY, ForgerKey},
        b \in { LitType \o <<49, 125>>, CommandBody(NameVroom), CommandBody(NameDebug),
                LitType \o <<51, 125>>, LitType } }

\* the call is over and it is the one later calls are compared with
CloseRemembered(c) ==
    /\ pipe[c].pc = "done"
    /\ remembered' = [req |-> pipe[c].req, f |-> pipe[c].f, out |-> pipe[c].out]
    /\ pipe' = [pipe EXCEPT ![c] = Idle]
    /\ UNCHANGED <<keyInit, pubKey, strictSig>>

NextReplay ==
    \E c \in Conns :
        \/ \E r \in ReplayRequests, f \in FKinds : Call(c, r, f)
        \/ BodyReady(c)
        \/ BodyError(c)
        \/ HandlerReturns(c)
        \/ Close(c)
        \/ CloseRemembered(c)

SpecReplay == Init /\ [][NextReplay]_vars

(***************************************************************************)
(* Concurrency: main (lines 141-148) serves every connection with its own  *)
(* call of interaction_handler; the calls interleave at their awaits        *)
(***************************************************************************)
NumConns == 2

ConcConns == 1..NumConns

\* POST / with timestamp "1": a ping and a command signed by the platform,
\* and the command signed by somebody else
ConcRequests ==
    { [method |-> POST, path |-> RootPath, ts |-> Header(<<49>>),
       sig |-> Header(HexEncode(SignatureFor(kb[1], <<49>> \o kb[2]))), body |-> kb[2]]
      : kb \in { <<PUB_KEY, LitType \o <<49, 125>>>>,
                 <<PUB_KEY, CommandBody(NameVroom)>>,
                 <<ForgerKey, CommandBody(NameVroom)>> } }

InitConc ==
    /\ pipe = [c \in ConcConns |-> Idle]
    /\ keyInit = FALSE
    /\ pubKey = <<>>
    /\ strictSig \in BOOLEAN
    /\ remembered = NoCall

NextConc ==
    \E c \in ConcConns :
        \/ \E r \in ConcRequests, f \in FKinds : Call(c, r, f)
        \/ BodyReady(c)
        \/ BodyError(c)
        \/ HandlerReturns(c)
        \/ Close(c)

SpecConc == InitConc /\ [][NextConc]_vars

(***************************************************************************)
(* Vocabulary of the properties, stated on the request itself               *)
(***************************************************************************)
Started(p) == p.pc # "idle"

Finished(p) == p.pc = "done"

\* the request fails one of the checks made before the body is read
FailsValidator(req) ==
    \/ req.method # POST
    \/ req.path # RootPath
    \/ ~req.ts.present
    \/ ~req.sig.present
    \/ ~FromHex(req.sig.value).ok

\* verify has been called on p's body and has accepted / refused it
Authenticated(p) ==
    /\ p.verifyCalls > 0
    /\ Verify(PUB_KEY, p.req.ts.value \o p.whole_body, p.signature)

Forged(p) ==
    /\ p.verifyCalls > 0
    /\ ~Verify(PUB_KEY, p.req.ts.value \o p.whole_body, p.signature)

Is200(p) == p.out.kind = "response" /\ p.out.status = 200

\* the request meets every condition of an answer
Answerable(p) ==
    LET d == DecodeInteraction(p.whole_body) IN
    /\ p.req.method = POST /\ p.req.path = RootPath
    /\ p.req.ts.present /\ p.req.sig.present
    /\ Authenticated(p)
    /\ d.ok
    /\ \/ d.value.kind = "Ping"
       \/ d.value.kind = "ApplicationCommand" /\ CallF(p.f, d.value).ok

\* {"type":1}
PongJson == <<123, 34, 116, 121, 112, 101, 34, 58, 49, 125>>

\* {"type":4,"data":{"content":"Vroom vroom"}}
VroomJson ==
    <<123, 34, 116, 121, 112, 101, 34, 58, 52, 44, 34, 100, 97, 116, 97, 34, 58, 123,
      34, 99, 111, 110, 116, 101, 110, 116, 34, 58, 34>> \o VroomText \o <<34, 125, 125>>

(***************************************************************************)
(* C1: a request whose signature verification failed is never decoded as   *)
(* an Interaction, never printed, never handed to f, and never answered    *)
(* with a 200.                                                              *)
(***************************************************************************)
C1_ForgedNeverAnswered ==
    \A c \in DOMAIN pipe :
        LET p == pipe[c] IN
        Forged(p) =>
            /\ p.interaction = NoInteraction
            /\ ~p.printed
            /\ p.fCalls = 0
            /\ ~Is200(p)

\* a forged request whose body would decode has been refused
C1_Witness ==
    \E c \in DOMAIN pipe :
        LET p == pipe[c] IN
        /\ Forged(p)
        /\ Finished(p)
        /\ DecodeInteraction(p.whole_body).ok
        /\ p.out = Respond(403, <<>>)

(***************************************************************************)
(* C2: a request whose x-signature-ed25519 header is present but is not    *)
(* the hex of a signature ends like one with a wrong signature: a 403      *)
(* response, without an error or a crash.                                   *)
(***************************************************************************)
C2_UndecodableSignatureIs403 ==
    \A c \in DOMAIN pipe :
        LET p == pipe[c] IN
        ( /\ Finished(p)
          /\ p.req.method = POST /\ p.req.path = RootPath
          /\ p.req.ts.present /\ p.req.sig.present
          /\ ~FromHex(p.req.sig.value).ok )
        => p.out = Respond(403, <<>>)

(***************************************************************************)
(* C3: the first failing check of method, path, headers decides the        *)
(* status: not POST gives 405 whatever the path and headers, a POST to     *)
(* another path gives 404 whatever the headers, a POST to "/" missing one  *)
(* of the two signature headers gives 400.                                  *)
(***************************************************************************)
C3_FirstFailingCheckDecides ==
    \A c \in DOMAIN pipe :
        LET p == pipe[c]
            r == p.req
        IN  Started(p) =>
            /\ r.method # POST
                 => Finished(p) /\ p.out.kind = "response" /\ p.out.status = 405
            /\ (r.method = POST /\ r.path # RootPath)
                 => Finished(p) /\ p.out.kind = "response" /\ p.out.status = 404
            /\ (r.method = POST /\ r.path = RootPath /\ (~r.ts.present \/ ~r.sig.present))
                 => Finished(p) /\ p.out.kind = "response" /\ p.out.status = 400

\* a request failing all three checks at once has got the status of the first
C3_Witness ==
    \E c \in DOMAIN pipe :
        LET p == pipe[c] IN
        /\ Finished(p)
        /\ p.req.method = GET /\ p.req.path = OtherPath
        /\ ~p.req.ts.present /\ ~p.req.sig.present
        /\ p.out.status = 405

(***************************************************************************)
(* C4: for a request that fails a validator check (method, path, missing   *)
(* header, undecodable signature header) the body is never read and the    *)
(* verifier is never invoked before the pipeline ends.                      *)
(***************************************************************************)
C4_RejectedBeforeBodyAndVerify ==
    \A c \in DOMAIN pipe :
        LET p == pipe[c] IN
        (Started(p) /\ FailsValidator(p.req)) =>
            /\ Finished(p)
            /\ ~p.bodyRead
            /\ p.whole_body = <<>>
            /\ p.verifyCalls = 0

\* a request with a body and a signature header that is not hex has ended unread
C4_Witness ==
    \E c \in DOMAIN pipe :
        LET p == pipe[c] IN
        /\ Finished(p)
        /\ p.req.method = POST /\ p.req.path = RootPath
        /\ p.req.ts.present /\ p.req.sig.present
        /\ ~FromHex(p.req.sig.value).ok
        /\ p.req.body # <<>>
        /\ ~p.bodyRead /\ p.verifyCalls = 0

(***************************************************************************)
(* C5: every failure inside a stage becomes one HTTP status response        *)
(* before interaction_handler returns; it never returns an error value.     *)
(***************************************************************************)
C5_EveryEndIsAResponse ==
    \A c \in DOMAIN pipe : Finished(pipe[c]) => pipe[c].out.kind = "response"

(***************************************************************************)
(* C6: an authenticated request whose body is not well-formed JSON or      *)
(* matches no interaction shape ends with a 400 response.                   *)
(***************************************************************************)
C6_UndecodableBodyIs400 ==
    \A c \in DOMAIN pipe :
        LET p == pipe[c] IN
        (Authenticated(p) /\ ~DecodeInteraction(p.whole_body).ok)
        => Finished(p) /\ p.out.kind = "response" /\ p.out.status = 400

(***************************************************************************)
(* C7: an authenticated Ping is answered with status 200 and the           *)
(* serialized Pong, and f is never invoked for it.                          *)
(***************************************************************************)
C7_PingIsPonged ==
    \A c \in DOMAIN pipe :
        LET p == pipe[c] IN
        (Authenticated(p) /\ DecodeInteraction(p.whole_body).value.kind = "Ping")
        => /\ Finished(p)
           /\ p.out = Respond(200, PongJson)
           /\ p.fCalls = 0

C7_Witness ==
    \E c \in DOMAIN pipe :
        LET p == pipe[c] IN
        /\ Authenticated(p)
        /\ p.interaction.kind = "Ping"
        /\ p.out = Respond(200, PongJson)

(***************************************************************************)
(* C8: an authenticated ApplicationCommand whose name is not exactly       *)
(* "vroom" or "debug" (the empty name and "Vroom" included) is answered by *)
(* the debug handler: status 200 and its ChannelMessageWithSource reply;   *)
(* handler does not fail for it.                                            *)
(***************************************************************************)
C8_UnknownCommandFallsBack ==
    \A c \in DOMAIN pipe :
        LET p == pipe[c]
            d == DecodeInteraction(p.whole_body)
        IN  ( /\ Authenticated(p)
              /\ p.f = "handler"
              /\ d.value.kind = "ApplicationCommand"
              /\ d.value.name \notin {NameVroom, NameDebug} )
            => /\ p.fCalls = 1
               /\ handler(d.value).ok
               /\ (Finished(p) => p.out = Respond(200, ToVec(debug(d.value).resp)))

\* "Vroom" and the empty name have both been answered by the fallback
C8_Witness ==
    \E c \in DOMAIN pipe :
        LET p == pipe[c] IN
        /\ Authenticated(p)
        /\ Finished(p)
        /\ p.f = "handler"
        /\ p.interaction.kind = "ApplicationCommand"
        /\ p.interaction.name = NameVroomCap
        /\ Is200(p)

(***************************************************************************)
(* C9: an authenticated ApplicationCommand named exactly "vroom" ends with *)
(* status 200 and the reply whose content is "Vroom vroom", whatever its   *)
(* other fields.                                                            *)
(***************************************************************************)
C9_VroomAnswersVroom ==
    \A c \in DOMAIN pipe :
        LET p == pipe[c]
            d == DecodeInteraction(p.whole_body)
        IN  ( /\ Authenticated(p)
              /\ Finished(p)
              /\ p.f = "handler"
              /\ d.value.kind = "ApplicationCommand"
              /\ d.value.name = NameVroom )
            => p.out = Respond(200, VroomJson)

\* a vroom command carrying an id has got the fixed reply
C9_Witness ==
    \E c \in DOMAIN pipe :
        LET p == pipe[c] IN
        /\ Authenticated(p)
        /\ Finished(p)
        /\ p.f = "handler"
        /\ p.interaction.name = NameVroom
        /\ p.interaction.id # <<>>
        /\ p.out = Respond(200, VroomJson)

(***************************************************************************)
(* C10: an authenticated interaction that is neither Ping nor              *)
(* ApplicationCommand is rejected with status 400 and an empty body, and f *)
(* is never invoked for it.                                                 *)
(***************************************************************************)
C10_OtherKindIs400 ==
    \A c \in DOMAIN pipe :
        LET p == pipe[c]
            d == DecodeInteraction(p.whole_body)
        IN  ( /\ Authenticated(p)
              /\ d.ok
              /\ d.value.kind \notin {"Ping", "ApplicationCommand"} )
            => /\ Finished(p)
               /\ p.out = Respond(400, <<>>)
               /\ p.fCalls = 0

C10_Witness ==
    \E c \in DOMAIN pipe :
        LET p == pipe[c] IN
        /\ Authenticated(p)
        /\ p.interaction.kind = "MessageComponent"
        /\ p.out = Respond(400, <<>>)

(***************************************************************************)
(* C11: when f fails for an authenticated ApplicationCommand the request   *)
(* ends with a status 500 response, not a 200, a 4xx or an error value.    *)
(***************************************************************************)
C11_HandlerErrorIs500 ==
    \A c \in DOMAIN pipe :
        LET p == pipe[c] IN
        ( /\ Finished(p)
          /\ Authenticated(p)
          /\ p.fCalls = 1
          /\ ~CallF(p.f, p.interaction).ok )
        => p.out.kind = "response" /\ p.out.status = 500

(***************************************************************************)
(* C12: a request whose signature is well formed but does not match is     *)
(* rejected with a 403 response whose body is empty.                        *)
(***************************************************************************)
C12_ForgedIs403Empty ==
    \A c \in DOMAIN pipe :
        LET p == pipe[c] IN
        Forged(p) => Finished(p) /\ p.out = Respond(403, <<>>)

\* a well-formed signature of somebody else over a non-empty body has been refused
C12_Witness ==
    \E c \in DOMAIN pipe :
        LET p == pipe[c] IN
        /\ Forged(p)
        /\ ScalarInRange(p.signature)
        /\ p.signature = SignatureFor(ForgerKey, p.req.ts.value \o p.req.body)
        /\ p.whole_body # <<>>
        /\ p.out = Respond(403, <<>>)

(***************************************************************************)
(* C13: no request is fatal: an authenticated body of any bytes, bytes     *)
(* that are not UTF-8 included, ends its pipeline without a panic.          *)
(***************************************************************************)
C13_AuthenticatedBodyNeverPanics ==
    \A c \in DOMAIN pipe :
        LET p == pipe[c] IN
        (Authenticated(p) /\ Finished(p)) => p.out.kind # "panic"

(***************************************************************************)
(* C14: a replay of an authenticated request that was answered 200 is      *)
(* answered 200 with the same content; no state is kept between requests,  *)
(* so that whenever the body arrives the outcome of a call is the outcome  *)
(* of every earlier call with the same request and the same f.              *)
(***************************************************************************)
C14_ReplayIsIdempotent ==
    \A c \in DOMAIN pipe :
        LET p == pipe[c] IN
        ( /\ Finished(p)
          /\ p.bodyRead
          /\ remembered.req = p.req
          /\ remembered.f = p.f
          /\ remembered.out # Fail("hyper::Error") )
        => /\ p.out = remembered.out
           /\ (Authenticated(p) /\ remembered.out.status = 200) => Is200(p)

\* a command that was answered 200 has been sent again and answered
C14_Witness ==
    \E c \in DOMAIN pipe :
        LET p == pipe[c] IN
        /\ Finished(p)
        /\ Authenticated(p)
        /\ p.interaction.kind = "ApplicationCommand"
        /\ remembered.req = p.req
        /\ remembered.f = p.f
        /\ remembered.out.status = 200
        /\ Is200(p)
        /\ p.out = remembered.out

(***************************************************************************)
(* C15: pipelines that interleave at their awaits end as they would alone: *)
(* the PublicKey, the only state they share, is never changed once it is   *)
(* initialized, a request is answered 200 exactly when it is answerable,   *)
(* and two pipelines given the same request and f end alike.                *)
(***************************************************************************)
C15_PipelinesEndAsAlone ==
    /\ keyInit => pubKey = PUB_KEY
    /\ \A c \in DOMAIN pipe :
           (Finished(pipe[c]) /\ pipe[c].bodyRead) =>
               /\ Is200(pipe[c]) <=> Answerable(pipe[c])
               /\ Forged(pipe[c]) <=> pipe[c].out = Respond(403, <<>>)
    /\ \A c, d \in DOMAIN pipe :
           ( /\ Finished(pipe[c]) /\ pipe[c].bodyRead
             /\ Finished(pipe[d]) /\ pipe[d].bodyRead
             /\ pipe[c].req = pipe[d].req
             /\ pipe[c].f = pipe[d].f )
           => pipe[c].out = pipe[d].out

\* a command has been answered on one connection while another connection,
\* given the same command after the key was initialized, awaits its handler
C15_Witness ==
    \E c, d \in DOMAIN pipe :
        /\ c # d
        /\ Finished(pipe[c]) /\ Is200(pipe[c])
        /\ pipe[c].interaction.kind = "ApplicationCommand"
        /\ pipe[d].pc = "handling"
        /\ pipe[d].req = pipe[c].req
        /\ keyInit /\ pubKey = PUB_KEY

(***************************************************************************)
(* C16: when the body read fails the pipeline ends without side effects:   *)
(* verify has accepted nothing, no Interaction has been decoded, nothing   *)
(* has been printed, f has not been invoked and no 200 is produced.         *)
(***************************************************************************)
C16_DisconnectHasNoEffect ==
    \A c \in DOMAIN pipe :
        LET p == pipe[c] IN
        (Finished(p) /\ p.out = Fail("hyper::Error")) =>
            /\ p.verifyCalls = 0
            /\ p.verified = "none"
            /\ p.interaction = NoInteraction
            /\ ~p.printed
            /\ p.fCalls = 0

\* the read failed for a request that would have been answered
C16_Witness ==
    \E c \in DOMAIN pipe :
        LET p == pipe[c] IN
        /\ Finished(p)
        /\ p.out = Fail("hyper::Error")
        /\ Verify(PUB_KEY, p.req.ts.value \o p.req.body, p.signature)
        /\ DecodeInteraction(p.req.body).value.kind = "ApplicationCommand"
        /\ p.fCalls = 0

(***************************************************************************)
(* C17: every started pipeline can end: at each of its two awaits a        *)
(* deadline is armed, so a pipeline that has not ended always has a step   *)
(* to take, the timeout if nothing else.                                    *)
(***************************************************************************)
C17_SuspendedPipelineCanEnd ==
    \A c \in Conns :
        (Started(pipe[c]) /\ ~Finished(pipe[c])) =>
            \/ pipe[c].pc = "reading"     \* the guard of BodyReady and of BodyError
            \/ ENABLED (HandlerReturns(c) \/ AwaitForever(c))

(***************************************************************************)
(* C18: within one request f is invoked at most once, and only after the   *)
(* validator checks passed, the body was read, the signature verified and  *)
(* the body decoded as an ApplicationCommand; so handler never returns its *)
(* "invalid interaction data" error.                                        *)
(***************************************************************************)
C18_HandlerOnlyForCommands ==
    \A c \in DOMAIN pipe :
        LET p == pipe[c] IN
        /\ p.fCalls <= 1
        /\ p.fCalls = 1 =>
            /\ ~FailsValidator(p.req)
            /\ p.bodyRead
            /\ Authenticated(p)
            /\ DecodeInteraction(p.whole_body).value.kind = "ApplicationCommand"
            /\ p.interaction = DecodeInteraction(p.whole_body).value
        /\ p.out.err # "invalid interaction data"

\* f has been invoked and its future is awaited
C18_Witness ==
    \E c \in DOMAIN pipe :
        LET p == pipe[c] IN
        /\ p.pc = "handling"
        /\ p.fCalls = 1
        /\ p.f = "handler"

(***************************************************************************)
(* C19: a response has status 200 exactly when the request is a POST to    *)
(* "/" with both signature headers, the signature verifies over timestamp  *)
(* then body, the body decodes as Ping or as an ApplicationCommand whose   *)
(* handler succeeded, and the reply is serialized; every other response    *)
(* has a status among 400, 403, 404, 405 and an empty body.                 *)
(***************************************************************************)
C19_Status200Iff ==
    \A c \in DOMAIN pipe :
        LET p == pipe[c] IN
        Finished(p) =>
            /\ Answerable(p) => Is200(p)
            /\ Is200(p) => Answerable(p) /\ p.out.body # <<>>
            /\ (p.out.kind = "response" /\ p.out.status # 200)
                 => p.out.status \in {400, 403, 404, 405} /\ p.out.body = <<>>

\* a debug command has been answered 200
C19_Witness ==
    \E c \in DOMAIN pipe :
        LET p == pipe[c] IN
        /\ Finished(p)
        /\ Answerable(p)
        /\ p.interaction.name = NameDebug
        /\ Is200(p)

====
